---- MODULE Spec2Model ----
(***************************************************************************)
(* A model of read_waveplus.py: the script guards that validate the        *)
(* command line, parse_serial_number, the WavePlus session (connect, read, *)
(* disconnect), the Sensors decoder and the polling loop of main().        *)
(*                                                                         *)
(* Python strings are tuples of one-character strings, Python None is the  *)
(* value None, and the BLE transport (bluepy's Scanner, Peripheral and     *)
(* Characteristic) is an environment whose calls either return a value     *)
(* drawn from a small set or raise.                                        *)
(***************************************************************************)
EXTENDS Integers, Sequences, FiniteSets, TLC

\* ------------------------------------------------------------------ bounds

\* The polling loop is `while True`; the model stops starting new iterations
\* after this many.
MaxIter == 2

\* The longest list of devices one scan returns.
MaxDevices == 2

\* ------------------------------------------------------ program constants

\* searchCount < 50
MaxSearchCount == 50

\* 0x0334, the company identifier parse_serial_number expects
CompanyId == 820

\* conv2radon: 0 <= radon_raw <= 16383
RadonMax == 16383

\* ------------------------------------------------------------- characters

None == "None"

AsciiDigits == {"0", "1", "2", "3", "4", "5", "6", "7", "8", "9"}

\* Characters for which str.isdigit() is true: the decimal digits (ASCII and
\* others, here ARABIC-INDIC DIGIT THREE written "ar3") and the digit-like
\* characters int() does not accept (SUPERSCRIPT TWO, written "sup2").
DigitChars == AsciiDigits \cup {"ar3", "sup2"}

\* Characters int() accepts as digits.
DecimalChars == AsciiDigits \cup {"ar3"}

DecimalValue(c) ==
    CASE c = "0" -> 0 [] c = "1" -> 1 [] c = "2" -> 2 [] c = "3" -> 3
      [] c = "4" -> 4 [] c = "5" -> 5 [] c = "6" -> 6 [] c = "7" -> 7
      [] c = "8" -> 8 [] c = "9" -> 9 [] c = "ar3" -> 3

\* str.isdigit(): non-empty and every character a digit
isdigit(s) == Len(s) > 0 /\ \A i \in 1..Len(s) : s[i] \in DigitChars

\* Whether int(s) returns (otherwise it raises ValueError); only called on
\* strings for which isdigit() is true.
IntParses(s) == Len(s) > 0 /\ \A i \in 1..Len(s) : s[i] \in DecimalChars

RECURSIVE int(_)
int(s) ==
    IF Len(s) = 0 THEN 0
    ELSE 10 * int(SubSeq(s, 1, Len(s) - 1)) + DecimalValue(s[Len(s)])

\* str.lower() on the letters the model's strings use
LowerChar(c) ==
    CASE c = "P" -> "p" [] c = "I" -> "i" [] c = "E" -> "e" [] c = "T" -> "t"
      [] OTHER -> c

lower(s) == [i \in 1..Len(s) |-> LowerChar(s[i])]

Pipe == <<"p", "i", "p", "e">>
Terminal == <<"t", "e", "r", "m", "i", "n", "a", "l">>

\* ------------------------------------------------------- the command line

SN_Target == <<"0", "0", "0", "0", "0", "0", "0", "5", "1", "3">>
SN_Other == <<"0", "0", "0", "0", "0", "0", "0", "5", "1", "4">>
SN_Zero == <<"0", "0", "0", "0", "0", "0", "0", "0", "0", "0">>
SN_Arabic == <<"0", "0", "0", "0", "0", "0", "0", "5", "1", "ar3">>
SN_Nine == <<"0", "0", "0", "0", "0", "0", "5", "1", "3">>
SN_Eleven == <<"0", "0", "0", "0", "0", "0", "0", "0", "5", "1", "3">>
SN_Letter == <<"0", "0", "0", "0", "0", "0", "0", "5", "1", "x">>
SN_Minus == <<"-", "0", "0", "0", "0", "0", "0", "5", "1", "3">>
SN_Super == <<"0", "0", "0", "0", "0", "0", "0", "5", "1", "sup2">>

SerialArgs ==
    {SN_Target, SN_Other, SN_Zero, SN_Arabic, SN_Nine, SN_Eleven, SN_Letter, SN_Minus,
     SN_Super, <<>>}

PeriodArgs ==
    {<<"0">>, <<"2">>, <<"-", "1">>, <<"+", "2">>, <<"1", ".", "5">>, <<"x">>,
     <<"sup2">>, <<>>}

ModeArgs ==
    {Pipe, Terminal, <<"P", "I", "P", "E">>, <<"T", "e", "r", "m", "i", "n", "a", "l", "s">>,
     <<"c", "s", "v">>, <<>>}

\* sys.argv: the program name, then zero to four arguments
ArgvSet ==
    {<<"read_waveplus.py">>}
    \cup {<<"read_waveplus.py", sn>> : sn \in SerialArgs}
    \cup {<<"read_waveplus.py", sn, p>> : sn \in SerialArgs, p \in PeriodArgs}
    \cup {<<"read_waveplus.py", sn, p, m>> :
             sn \in SerialArgs, p \in PeriodArgs, m \in ModeArgs}
    \cup {<<"read_waveplus.py", SN_Target, <<"2">>, m, <<"x">>>> : m \in {Pipe, <<"c", "s", "v">>}}

\* ------------------------------------------------------ Python values

\* A value that is either None or a str (dev.getValueText's result)
PyNone == [kind |-> "None", str |-> <<>>]
PyStr(s) == [kind |-> "str", str |-> s]

HexChars ==
    {"0", "1", "2", "3", "4", "5", "6", "7", "8", "9", "a", "b", "c", "d", "e", "f"}

HexValue(c) ==
    CASE c = "a" -> 10 [] c = "b" -> 11 [] c = "c" -> 12 [] c = "d" -> 13
      [] c = "e" -> 14 [] c = "f" -> 15 [] OTHER -> DecimalValue(c)

\* Whether bytearray.fromhex(s) returns (otherwise it raises ValueError)
FromHexParses(s) == Len(s) % 2 = 0 /\ \A i \in 1..Len(s) : s[i] \in HexChars

\* bytearray.fromhex(s): one byte per pair of hex digits
fromhex(s) ==
    [i \in 1..(Len(s) \div 2) |-> 16 * HexValue(s[2 * i - 1]) + HexValue(s[2 * i])]

\* What a call that returns a value or raises ends with
Returned(v) == [tag |-> "value", val |-> v]
Raised(e) == [tag |-> e, val |-> 0]
Unknown == [tag |-> "Unknown", val |-> 0]
\* No call has been made yet
Pending == [tag |-> "pending", val |-> 0]

\* parse_serial_number that reads the company identifier big-endian
parse_serial_numberBigEndian(manu_data_hex_str) ==
    IF manu_data_hex_str = PyNone \/ manu_data_hex_str = PyStr(<<"N", "o", "n", "e">>)
    THEN Unknown
    ELSE IF ~FromHexParses(manu_data_hex_str.str) THEN Raised("ValueError")
    ELSE LET b == fromhex(manu_data_hex_str.str) IN
         IF Len(b) < 2 THEN Raised("IndexError")
         ELSE IF b[1] * 256 + b[2] # CompanyId THEN Unknown
         ELSE IF Len(b) < 6 THEN Raised("IndexError")
         ELSE Returned(b[3] + b[4] * 256 + b[5] * 65536 + b[6] * 16777216)

\* parse_serial_number (lines 90-103). manu_data[i] of the code is b[i + 1].
parse_serial_number(manu_data_hex_str) ==
    IF manu_data_hex_str = PyNone
          \/ manu_data_hex_str = PyStr(<<"N", "o", "n", "e">>)
    THEN Unknown
    ELSE IF ~FromHexParses(manu_data_hex_str.str) THEN Raised("ValueError")
    ELSE LET b == fromhex(manu_data_hex_str.str) IN
         IF Len(b) < 2 THEN Raised("IndexError")
         ELSE IF b[2] * 256 + b[1] # CompanyId THEN Unknown
         ELSE IF Len(b) < 6 THEN Raised("IndexError")
         ELSE Returned(b[3] + b[4] * 256 + b[5] * 65536 + b[6] * 16777216)

\* ------------------------------------------------------ the devices in range

\* dev.getValueText(255) (line 129): the payload's bytes as lower-case hex digits
HexDigitOf(n) ==
    <<"0", "1", "2", "3", "4", "5", "6", "7", "8", "9", "a", "b", "c", "d", "e", "f">>[n + 1]

HexText(bytes) ==
    [i \in 1..(2 * Len(bytes)) |->
        IF i % 2 = 1 THEN HexDigitOf(bytes[(i + 1) \div 2] \div 16)
        ELSE HexDigitOf(bytes[i \div 2] % 16)]

\* The values byte i of an advertised payload is drawn from: 0x34 or 0x4c, 0x03
\* or 0x00, then the serial number's four bytes (the last one under 0x80, to
\* stay within TLC's integers), then two more bytes
ByteChoices == <<{52, 76}, {3, 0}, {0, 1, 255}, {0, 2}, {0, 255}, {0, 127}, {9}, {0}>>

RECURSIVE BytesOfLen(_)
BytesOfLen(n) ==
    IF n = 0 THEN {<<>>}
    ELSE {Append(bytes, b) : bytes \in BytesOfLen(n - 1), b \in ByteChoices[n]}

\* The payloads the parser is checked on: none, the text None, and the hex
\* text of 0 to 8 bytes
Payloads ==
    {PyNone, PyStr(<<"N", "o", "n", "e">>)}
    \cup {PyStr(HexText(bytes)) : bytes \in UNION {BytesOfLen(n) : n \in 0..Len(ByteChoices)}}

\* 34 03 | 01 02 00 00 | 09 00: company 0x0334, serial number 513
ManuTarget ==
    PyStr(<<"3", "4", "0", "3", "0", "1", "0", "2", "0", "0", "0", "0", "0", "9", "0", "0">>)
\* 34 03 | 02 02 00 00: serial number 514
ManuOther == PyStr(<<"3", "4", "0", "3", "0", "2", "0", "2", "0", "0", "0", "0">>)
\* 4c 00 | 01 02 00 00: another company
ManuForeign == PyStr(<<"4", "c", "0", "0", "0", "1", "0", "2", "0", "0", "0", "0">>)
\* 34 03 | 01: the company identifier and a cut serial number
ManuCut == PyStr(<<"3", "4", "0", "3", "0", "1">>)
\* 34: one byte
ManuByte == PyStr(<<"3", "4">>)

Devices ==
    {[addr |-> "aa:01", manu |-> ManuTarget],
     [addr |-> "aa:02", manu |-> ManuTarget],
     [addr |-> "bb:01", manu |-> ManuOther],
     [addr |-> "cc:01", manu |-> PyNone],
     [addr |-> "dd:01", manu |-> ManuForeign],
     [addr |-> "ee:01", manu |-> ManuCut],
     [addr |-> "ff:01", manu |-> ManuByte]}

RECURSIVE ListsUpTo(_, _)
\* The lists of at most n distinct elements of S
ListsUpTo(S, n) ==
    IF n = 0 THEN {<<>>}
    ELSE LET shorter == ListsUpTo(S, n - 1) IN
         shorter \cup {Append(l, d) : l \in {x \in shorter : Len(x) = n - 1},
                                     d \in S}

\* What Scanner.scan(0.1) may return
ScanResults ==
    {l \in ListsUpTo(Devices, MaxDevices) :
        \A i, j \in 1..Len(l) : i # j => l[i].addr # l[j].addr}

\* The for loop without its break: the last matching device wins
RECURSIVE ForDevicesNoBreak(_, _, _)
ForDevicesNoBreak(devs, i, target) ==
    IF i > Len(devs) THEN Returned(None)
    ELSE LET serial_number == parse_serial_number(devs[i].manu)
             rest == ForDevicesNoBreak(devs, i + 1, target)
         IN
         IF serial_number.tag \in {"ValueError", "IndexError"} THEN Raised(serial_number.tag)
         ELSE IF rest.tag # "value" \/ rest.val # None THEN rest
         ELSE IF serial_number.tag = "value" /\ serial_number.val = target
         THEN Returned(devs[i].addr)
         ELSE rest

\* The for loop comparing the parser's number alone, so that a result without
\* a serial number counts as the number 0
RECURSIVE ForDevicesByNumber(_, _, _)
ForDevicesByNumber(devs, i, target) ==
    IF i > Len(devs) THEN Returned(None)
    ELSE LET serial_number == parse_serial_number(devs[i].manu) IN
         IF serial_number.tag \in {"ValueError", "IndexError"} THEN Raised(serial_number.tag)
         ELSE IF serial_number.val = target
         THEN Returned(devs[i].addr)
         ELSE ForDevicesByNumber(devs, i + 1, target)

\* The for loop of connect (lines 128-134) over devices[i..]: the address it
\* sets (None when no device matches) or the error parse_serial_number raises.
RECURSIVE ForDevices(_, _, _)
ForDevices(devs, i, target) ==
    IF i > Len(devs) THEN Returned(None)
    ELSE LET serial_number == parse_serial_number(devs[i].manu) IN
         IF serial_number.tag \in {"ValueError", "IndexError"} THEN Raised(serial_number.tag)
         ELSE IF serial_number.tag = "value" /\ serial_number.val = target
         THEN Returned(devs[i].addr)
         ELSE ForDevices(devs, i + 1, target)

\* ------------------------------------------------------ the sensor record

\* A record of the characteristic: 4 bytes, then 8 little-endian 16-bit words
Record(b0, b1, b2, b3, words) ==
    <<b0, b1, b2, b3>>
    \o [i \in 1..(2 * Len(words)) |->
           IF i % 2 = 1 THEN words[(i + 1) \div 2] % 256 ELSE words[i \div 2] \div 256]

\* The records the decoder is checked on: bytes 0 and 1 and the first six words
\* range over the values below, the last two words are 40 and 500
VersionBytes == {0, 1, 2}
HumidityBytes == {0, 81, 255}
RadonWords == {0, 80, 16383, 16384, 65535}
TemperatureWords == {0, 2150}
PressureWords == {10, 50000}
GasWords == {20, 1000}

DecodeRecords ==
    {Record(v, h, 0, 0, <<st, lt, t, p, c, voc, 40, 500>>) :
        v \in VersionBytes, h \in HumidityBytes, st \in RadonWords, lt \in RadonWords,
        t \in TemperatureWords, p \in PressureWords, c \in GasWords, voc \in GasWords}

RawRecords ==
    {Record(1, 0, 0, 0, <<80, 0, 0, 10, 20, 1000, 40, 500>>),
     Record(1, 81, 7, 0, <<16383, 16384, 2150, 50000, 450, 120, 0, 0>>),
     Record(1, 255, 0, 0, <<65535, 0, 65535, 65535, 65535, 65535, 0, 0>>),
     Record(2, 81, 7, 0, <<16383, 16384, 2150, 50000, 450, 120, 0, 0>>),
     Record(0, 0, 0, 0, <<80, 0, 0, 10, 20, 1000, 40, 500>>),
     SubSeq(Record(1, 0, 0, 0, <<80, 0, 0, 10, 20, 1000, 40, 500>>), 1, 19)}

\* struct.calcsize('<BBBBHHHHHHHH')
RecordSize == 20

\* struct.unpack('<BBBBHHHHHHHH', rawdata) (line 157); rawData[i] of the code
\* is the tuple's element i + 1. Raises struct.error on any other length.
unpack(rawdata) ==
    IF Len(rawdata) # RecordSize THEN Raised("struct.error")
    ELSE Returned(<<rawdata[1], rawdata[2], rawdata[3], rawdata[4]>>
                  \o [i \in 1..8 |-> rawdata[3 + 2 * i] + 256 * rawdata[4 + 2 * i]])

\* A sensor value: a float n/d, an int n or the string s
PyFloat(n, d) == [t |-> "float", n |-> n, d |-> d, s |-> ""]
PyInt(n) == [t |-> "int", n |-> n, d |-> 1, s |-> ""]
PyText(s) == [t |-> "str", n |-> 0, d |-> 1, s |-> s]
NoValue == PyText("None")

\* conv2radon that takes the largest valid word for an invalid one
conv2radonBelowMax(radon_raw) ==
    IF 0 <= radon_raw /\ radon_raw < RadonMax THEN PyInt(radon_raw) ELSE PyText("N/A")

\* Sensors.conv2radon (lines 228-232)
conv2radon(radon_raw) ==
    IF 0 <= radon_raw /\ radon_raw <= RadonMax THEN PyInt(radon_raw) ELSE PyText("N/A")

\* Sensors.set that takes the humidity from the first word and the other
\* readings from the fourth word on
SensorsSetShifted(rawData) ==
    IF rawData[1] = 1
    THEN Returned(<<PyFloat(rawData[5], 2),
                    conv2radon(rawData[8]),
                    conv2radon(rawData[9]),
                    PyFloat(rawData[10], 100),
                    PyFloat(rawData[11], 50),
                    PyInt(rawData[12]),
                    PyInt(rawData[12])>>)
    ELSE Raised("SystemExit")

\* Sensors.set that takes every version from 1 on for version 1
SensorsSetFromVersion1(rawData) ==
    IF rawData[1] >= 1
    THEN Returned(<<PyFloat(rawData[2], 2),
                    conv2radon(rawData[5]),
                    conv2radon(rawData[6]),
                    PyFloat(rawData[7], 100),
                    PyFloat(rawData[8], 50),
                    PyInt(rawData[9]),
                    PyInt(rawData[10])>>)
    ELSE Raised("SystemExit")

\* Sensors.set (lines 213-226): sensor_data in the order of SensorIndex, or
\* SystemExit on a version other than 1
SensorsSet(rawData) ==
    IF rawData[1] = 1
    THEN Returned(<<PyFloat(rawData[2], 2),
                    conv2radon(rawData[5]),
                    conv2radon(rawData[6]),
                    PyFloat(rawData[7], 100),
                    PyFloat(rawData[8], 50),
                    PyInt(rawData[9]),
                    PyInt(rawData[10])>>)
    ELSE Raised("SystemExit")

SENSOR_UNITS == <<"%rH", "Bq/m3", "Bq/m3", "degC", "hPa", "ppm", "ppb">>

\* The decimal digit d as a character
DigitOf(d) == <<"0", "1", "2", "3", "4", "5", "6", "7", "8", "9">>[d + 1]

\* str() of a non-negative int: its decimal digits
RECURSIVE DigitsOf(_)
DigitsOf(n) == IF n < 10 THEN <<DigitOf(n)>> ELSE DigitsOf(n \div 10) \o <<DigitOf(n % 10)>>

\* '{}'.format(value) (line 268) as a sequence of characters; a string value is
\* kept as one element. A float n/d with d dividing 100 is written with its
\* one or two decimals, as the shortest repr of Python does (40.0, 0.2, 655.35).
FormatValue(value) ==
    CASE value.t = "int" -> DigitsOf(value.n)
      [] value.t = "str" -> <<value.s>>
      [] value.t = "float" ->
            LET hundredths == (value.n * 100) \div value.d
                frac == hundredths % 100
            IN  DigitsOf(hundredths \div 100) \o <<".">>
                \o (IF frac % 10 = 0 THEN <<DigitOf(frac \div 10)>>
                    ELSE <<DigitOf(frac \div 10), DigitOf(frac % 10)>>)

\* '{} {}'.format(data, unit) (line 268)
FormatCell(value, unit) == FormatValue(value) \o <<" ", unit>>

\* Sensors.__iter__ and the list comprehension of main (lines 240-241, 266-269)
FormatRow(sensor_data) ==
    [i \in 1..Len(sensor_data) |-> FormatCell(sensor_data[i], SENSOR_UNITS[i])]

\* ------------------------------------------------------------------ state

VARIABLES
    argv,            \* sys.argv, until main() starts (it is not read after line 83)
    SERIAL_NUMBER,   \* line 82; -1 while unbound
    SAMPLE_PERIOD,   \* line 83; -1 while unbound
    MODE,            \* lines 69-71; <<>> while unbound
    serial_number,   \* WavePlus.serial_number; -1 before the session is made
    mac_address,     \* WavePlus.mac_address
    peripheral,      \* WavePlus.peripheral: None, or the address its link goes to
    curr_val_char,   \* WavePlus.curr_val_char: None, or the characteristic
    searchCount,     \* connect's local
    devices,         \* connect's local: the last scan's result
    rawdata,         \* read's local
    record,          \* the bytes the last transport read returned
    sensors,         \* Sensors.sensor_data of the last read
    data,            \* main's local: the formatted row
    iter,            \* iterations of the polling loop started
    pc,              \* the statement about to run
    site,            \* where the running method was called from: loop, finally, session
    exc,             \* the exception propagating through main (none when there is none)
    err,             \* the last ERROR line printed
    call,            \* the session method called last
    entry,           \* the session's handles when that call began
    ops,             \* the transport operations that call has issued
    result,          \* how that call ended: running, returned, or the exception raised
    prev,            \* the call before it and how it ended
    link,            \* transport connections open
    closes,          \* transport disconnects that returned on the connection opened
                     \* last; -1 while none has been opened
    manu_data,       \* connect's local of line 129: the payload handed to the parser
    parsed,          \* what parse_serial_number made of it (line 130)
    printed,         \* lines printed: serial number line, header row, data rows
    cleanupCalls     \* times the finally clause of main() has called disconnect()

cfgVars == <<argv, SERIAL_NUMBER, SAMPLE_PERIOD, MODE>>
handleVars == <<mac_address, peripheral, curr_val_char>>
sessionVars == <<serial_number, mac_address, peripheral, curr_val_char>>
connectLocals == <<searchCount, devices>>
readLocals == <<rawdata, sensors, record>>
parseVars == <<manu_data, parsed>>
mainVars == <<data, iter, printed, cleanupCalls>>
callVars == <<call, entry, prev>>

vars ==
    <<argv, SERIAL_NUMBER, SAMPLE_PERIOD, MODE, serial_number, mac_address, peripheral,
      curr_val_char, searchCount, devices, rawdata, sensors, record, data, iter, pc, site,
      exc, err, call, entry, ops, result, prev, link, closes, manu_data, parsed, printed,
      cleanupCalls>>

\* The characteristic UUID('b42e2a68-ade7-11e4-89d3-123b93f75cba') resolves to
CurrValChar == "b42e2a68"

ZeroOps == [scan |-> 0, conn |-> 0, look |-> 0, read |-> 0, disc |-> 0]

Handles == [mac |-> mac_address, per |-> peripheral, char |-> curr_val_char]

ConnectPcs == {"c_begin", "c_while", "c_open", "c_char"}
ReadPcs == {"r_check", "r_read", "r_unpack", "r_set"}
DisconnectPcs == {"d_check", "d_disc", "d_clear_p", "d_clear_c"}
MethodPcs == ConnectPcs \cup ReadPcs \cup DisconnectPcs
GuardPcs == {"g_argc", "g_serial", "g_period", "g_mode", "g_parse"}
LoopPcs ==
    {"m_header", "m_connect", "m_read", "m_format", "m_print", "m_disconnect", "m_sleep"}

\* The states of the session of section 4.2
UNRESOLVED == mac_address = None /\ peripheral = None /\ curr_val_char = None
RESOLVED == mac_address # None /\ peripheral = None /\ curr_val_char = None
CONNECTED == mac_address # None /\ peripheral # None /\ curr_val_char # None

\* -------------------------------------------------- calls, returns, raises

EntryPc(m) ==
    CASE m = "connect" -> "c_begin" [] m = "read" -> "r_check" [] m = "disconnect" -> "d_check"

\* The statement of main() after the call of m in the loop (lines 260-280)
AfterCall(m) ==
    CASE m = "connect" -> "m_read" [] m = "read" -> "m_format" [] m = "disconnect" -> "m_sleep"

\* try ... finally (lines 253, 281-282): where an exception e raised inside the
\* try block takes control
TryFinallySkipsExit(e) == IF e = "SystemExit" THEN "done" ELSE "m_finally"
TryFinally(e) == "m_finally"

BeginCall(m) ==
    /\ call' = m
    /\ prev' = [call |-> call, result |-> result]
    /\ entry' = Handles
    /\ ops' = ZeroOps
    /\ result' = "running"
    /\ pc' = EntryPc(m)

\* The running method returns to its caller.
Return ==
    /\ result' = "returned"
    /\ pc' = CASE site = "session" -> "idle"
               [] site = "finally" -> "done"
               [] site = "loop" -> AfterCall(call)
    /\ UNCHANGED <<exc, site, callVars>>

\* The running method raises e; from the finally clause it leaves main().
Raise(e) ==
    /\ result' = e
    /\ pc' = CASE site = "session" -> "idle"
               [] site = "finally" -> "done"
               [] site = "loop" -> TryFinally(e)
    /\ exc' = IF site = "session" THEN exc ELSE e
    /\ UNCHANGED <<site, callVars>>

Count(op) == ops' = [ops EXCEPT ![op] = @ + 1]

\* ------------------------------------------------------- WavePlus.connect

\* if self.mac_address is None: scanner = ...; searchCount = 0 (lines 120-122)
ConnectBegin ==
    /\ pc = "c_begin"
    /\ IF mac_address = None
       THEN searchCount' = 0 /\ pc' = "c_while"
       ELSE searchCount' = searchCount /\ pc' = "c_open"
    /\ UNCHANGED <<cfgVars, parseVars, sessionVars, devices, readLocals, mainVars, site, exc,
                   err, callVars, ops, result, link, closes>>

\* searchCount <= 50: one scan too many
KeepsScanningOneMore == mac_address = None /\ searchCount <= MaxSearchCount

\* while self.mac_address is None and searchCount < 50 (line 124)
KeepsScanning == mac_address = None /\ searchCount < MaxSearchCount

\* One iteration of the while loop (lines 124-134): a scan that returns, then
\* the for loop over its devices, which sets the address or raises. The list
\* is kept while the loop's break makes it matter: after a for loop that ran to
\* its end nothing reads it before the next scan replaces it.
ConnectScan ==
    /\ pc = "c_while"
    /\ KeepsScanning
    /\ \E devs \in ScanResults :
          LET found == ForDevices(devs, 1, serial_number) IN
          /\ Count("scan")
          /\ IF found.tag = "value"
             THEN /\ searchCount' = searchCount + 1
                  /\ devices' = IF found.val # None THEN devs ELSE <<>>
                  /\ mac_address' = found.val
                  /\ UNCHANGED <<pc, site, exc, callVars, result>>
             ELSE /\ searchCount' = 0
                  /\ devices' = <<>>
                  /\ mac_address' = mac_address
                  /\ Raise(found.tag)
    /\ UNCHANGED <<cfgVars, parseVars, serial_number, peripheral, curr_val_char, readLocals,
                   mainVars, err, link, closes>>

\* scanner.scan(0.1) raises (line 125)
ConnectScanFails ==
    /\ pc = "c_while"
    /\ KeepsScanning
    /\ Count("scan")
    /\ searchCount' = 0
    /\ devices' = <<>>
    /\ Raise("BTLEException")
    /\ UNCHANGED <<cfgVars, parseVars, sessionVars, readLocals, mainVars, err, link, closes>>

\* The while loop ends with an address (lines 124, 136)
ConnectFound ==
    /\ pc = "c_while"
    /\ ~KeepsScanning
    /\ mac_address # None
    /\ pc' = "c_open"
    /\ searchCount' = 0
    /\ devices' = <<>>
    /\ UNCHANGED <<cfgVars, parseVars, sessionVars, readLocals, mainVars, site, exc, err,
                   callVars, ops, result, link, closes>>

\* The while loop ends without one: sys.exit(1) (lines 136-142)
ConnectNotFound ==
    /\ pc = "c_while"
    /\ ~KeepsScanning
    /\ mac_address = None
    /\ err' = "Could not find device."
    /\ Raise("SystemExit")
    /\ UNCHANGED <<cfgVars, parseVars, sessionVars, connectLocals, readLocals, mainVars, ops,
                   link, closes>>

\* connect that opens a connection on every call
AlwaysOpens == TRUE

\* if self.peripheral is None (line 145)
NeedsPeripheral == peripheral = None

\* self.peripheral = Peripheral(self.mac_address) (lines 145-146)
ConnectOpen ==
    /\ pc = "c_open"
    /\ IF NeedsPeripheral
       THEN /\ peripheral' = mac_address
            /\ link' = link + 1
            /\ closes' = 0
            /\ Count("conn")
       ELSE UNCHANGED <<peripheral, link, closes, ops>>
    /\ pc' = "c_char"
    /\ UNCHANGED <<cfgVars, parseVars, serial_number, mac_address, curr_val_char, connectLocals,
                   readLocals, mainVars, site, exc, err, callVars, result>>

\* Peripheral(self.mac_address) raises: no link is made (line 146)
ConnectOpenFails ==
    /\ pc = "c_open"
    /\ NeedsPeripheral
    /\ Count("conn")
    /\ Raise("BTLEException")
    /\ UNCHANGED <<cfgVars, parseVars, sessionVars, connectLocals, readLocals, mainVars, err,
                   link, closes>>

\* connect that resolves the characteristic on every call
AlwaysLooksUp == TRUE

\* if self.curr_val_char is None (line 148)
NeedsCharacteristic == curr_val_char = None

\* self.curr_val_char = self.peripheral.getCharacteristics(uuid=self.uuid)[0]
\* (lines 148-149), then connect returns
ConnectChar ==
    /\ pc = "c_char"
    /\ IF NeedsCharacteristic
       THEN curr_val_char' = CurrValChar /\ Count("look")
       ELSE UNCHANGED <<curr_val_char, ops>>
    /\ Return
    /\ UNCHANGED <<cfgVars, parseVars, serial_number, mac_address, peripheral, connectLocals,
                   readLocals, mainVars, err, link, closes>>

\* getCharacteristics raises, or returns an empty list so that [0] raises
\* IndexError (line 149)
ConnectCharFails ==
    /\ pc = "c_char"
    /\ NeedsCharacteristic
    /\ Count("look")
    /\ \E e \in {"BTLEException", "IndexError"} : Raise(e)
    /\ UNCHANGED <<cfgVars, parseVars, sessionVars, connectLocals, readLocals, mainVars, err,
                   link, closes>>

\* ---------------------------------------------------------- WavePlus.read

\* read guarded by the address instead of the characteristic
NotConnectedByAddress == mac_address = None

\* if self.curr_val_char is None (line 152)
NotConnected == curr_val_char = None

\* The guard of read (lines 152-154)
ReadCheck ==
    /\ pc = "r_check"
    /\ IF NotConnected
       THEN err' = "Devices are not connected." /\ Raise("SystemExit")
       ELSE /\ pc' = "r_read"
            /\ UNCHANGED <<err, exc, site, callVars, result>>
    /\ UNCHANGED <<cfgVars, parseVars, sessionVars, connectLocals, readLocals, mainVars, ops,
                   link, closes>>

\* rawdata = self.curr_val_char.read() (line 156)
ReadTransport ==
    /\ pc = "r_read"
    /\ Count("read")
    /\ \E raw \in RawRecords : rawdata' = raw /\ record' = raw
    /\ pc' = "r_unpack"
    /\ UNCHANGED <<cfgVars, parseVars, sessionVars, connectLocals, sensors, mainVars, site, exc,
                   err, callVars, result, link, closes>>

\* self.curr_val_char.read() raises (line 156)
ReadTransportFails ==
    /\ pc = "r_read"
    /\ Count("read")
    /\ Raise("BTLEException")
    /\ UNCHANGED <<cfgVars, parseVars, sessionVars, connectLocals, readLocals, mainVars, err,
                   link, closes>>

\* rawdata = struct.unpack('<BBBBHHHHHHHH', rawdata) (line 157)
ReadUnpack ==
    /\ pc = "r_unpack"
    /\ LET fields == unpack(rawdata) IN
       IF fields.tag = "value"
       THEN /\ rawdata' = fields.val
            /\ pc' = "r_set"
            /\ UNCHANGED <<exc, site, callVars, result>>
       ELSE /\ rawdata' = <<>>
            /\ Raise(fields.tag)
    /\ UNCHANGED <<cfgVars, parseVars, sessionVars, connectLocals, sensors, record, mainVars,
                   err, ops, link, closes>>

\* sensors = Sensors(); sensors.set(rawdata); return sensors (lines 159-162)
ReadSet ==
    /\ pc = "r_set"
    /\ LET decoded == SensorsSet(rawdata) IN
       IF decoded.tag = "value"
       THEN /\ sensors' = decoded.val
            /\ err' = err
            /\ Return
       ELSE /\ sensors' = sensors
            /\ err' = "Unknown sensor version."
            /\ Raise(decoded.tag)
    /\ rawdata' = <<>>
    /\ UNCHANGED <<cfgVars, parseVars, sessionVars, connectLocals, record, mainVars, ops, link,
                   closes>>

\* ---------------------------------------------------- WavePlus.disconnect

\* disconnect guarded by the characteristic instead of the connection
NothingToCloseByChar == curr_val_char = None

\* if self.peripheral is None (line 165)
NothingToClose == peripheral = None

\* if self.peripheral is None: return (lines 165-166)
DisconnectCheck ==
    /\ pc = "d_check"
    /\ IF NothingToClose
       THEN Return
       ELSE /\ pc' = "d_disc"
            /\ UNCHANGED <<exc, site, callVars, result>>
    /\ UNCHANGED <<cfgVars, parseVars, sessionVars, connectLocals, readLocals, mainVars, err,
                   ops, link, closes>>

\* The links open after the transport has closed one
Closed(n) == IF n > 0 THEN n - 1 ELSE 0

\* self.peripheral.disconnect() (line 168)
DisconnectTransport ==
    /\ pc = "d_disc"
    /\ Count("disc")
    /\ link' = Closed(link)
    /\ closes' = closes + 1
    /\ pc' = "d_clear_p"
    /\ UNCHANGED <<cfgVars, parseVars, sessionVars, connectLocals, readLocals, mainVars, site,
                   exc, err, callVars, result>>

\* self.peripheral.disconnect() raises, with the link closed or not (line 168)
DisconnectTransportFails ==
    /\ pc = "d_disc"
    /\ Count("disc")
    /\ link' \in {link, Closed(link)}
    /\ closes' = closes
    /\ Raise("BTLEException")
    /\ UNCHANGED <<cfgVars, parseVars, sessionVars, connectLocals, readLocals, mainVars, err>>

\* self.peripheral = None (line 169)
DisconnectClearPeripheral ==
    /\ pc = "d_clear_p"
    /\ peripheral' = None
    /\ pc' = "d_clear_c"
    /\ UNCHANGED <<cfgVars, parseVars, serial_number, mac_address, curr_val_char, connectLocals,
                   readLocals, mainVars, site, exc, err, callVars, ops, result, link, closes>>

\* disconnect that returns without clearing the characteristic
DisconnectKeepsChar ==
    /\ pc = "d_clear_c"
    /\ Return
    /\ UNCHANGED <<cfgVars, parseVars, sessionVars, connectLocals, readLocals, mainVars, err,
                   ops, link, closes>>

\* disconnect that also forgets the address
DisconnectForgetsAddress ==
    /\ pc = "d_clear_c"
    /\ curr_val_char' = None
    /\ mac_address' = None
    /\ Return
    /\ UNCHANGED <<cfgVars, parseVars, serial_number, peripheral, connectLocals, readLocals,
                   mainVars, err, ops, link, closes>>

\* self.curr_val_char = None (line 170), then disconnect returns
DisconnectClearChar ==
    /\ pc = "d_clear_c"
    /\ curr_val_char' = None
    /\ Return
    /\ UNCHANGED <<cfgVars, parseVars, serial_number, mac_address, peripheral, connectLocals,
                   readLocals, mainVars, err, ops, link, closes>>

Session ==
    \/ ConnectBegin \/ ConnectScan \/ ConnectScanFails \/ ConnectFound \/ ConnectNotFound
    \/ ConnectOpen \/ ConnectOpenFails \/ ConnectChar \/ ConnectCharFails
    \/ ReadCheck \/ ReadTransport \/ ReadTransportFails \/ ReadUnpack \/ ReadSet
    \/ DisconnectCheck \/ DisconnectTransport \/ DisconnectTransportFails
    \/ DisconnectClearPeripheral \/ DisconnectClearChar

\* ----------------------------------------------------------- script guards

\* print the ERROR and USAGE lines, sys.exit(1) (e.g. lines 42-48)
Usage(message) ==
    /\ err' = message
    /\ exc' = "SystemExit"
    /\ pc' = "done"

\* An exception no handler catches ends the process.
Uncaught(e) ==
    /\ exc' = e
    /\ pc' = "done"
    /\ err' = err

\* if len(sys.argv) < 3 (lines 41-48)
GuardArgc ==
    /\ pc = "g_argc"
    /\ IF Len(argv) < 3
       THEN Usage("Missing input argument SN or SAMPLE-PERIOD.")
       ELSE pc' = "g_serial" /\ UNCHANGED <<exc, err>>
    /\ UNCHANGED <<cfgVars, parseVars, sessionVars, connectLocals, readLocals, mainVars, site,
                   callVars, ops, result, link, closes>>

\* if sys.argv[1].isdigit() is not True or len(sys.argv[1]) != 10 (lines 50-57)
GuardSerial ==
    /\ pc = "g_serial"
    /\ IF ~isdigit(argv[2]) \/ Len(argv[2]) # 10
       THEN Usage("Invalid SN format.")
       ELSE pc' = "g_period" /\ UNCHANGED <<exc, err>>
    /\ UNCHANGED <<cfgVars, parseVars, sessionVars, connectLocals, readLocals, mainVars, site,
                   callVars, ops, result, link, closes>>

\* if sys.argv[2].isdigit() is not True or int(sys.argv[2]) < 0 (lines 59-66)
GuardPeriod ==
    /\ pc = "g_period"
    /\ IF ~isdigit(argv[3])
       THEN Usage("Invalid SAMPLE-PERIOD.")
       ELSE IF ~IntParses(argv[3])
       THEN Uncaught("ValueError")
       ELSE IF int(argv[3]) < 0
       THEN Usage("Invalid SAMPLE-PERIOD.")
       ELSE pc' = "g_mode" /\ UNCHANGED <<exc, err>>
    /\ UNCHANGED <<cfgVars, parseVars, sessionVars, connectLocals, readLocals, mainVars, site,
                   callVars, ops, result, link, closes>>

\* MODE taken as typed, without lower()
ModeOfAsTyped(args) == IF Len(args) > 3 THEN args[4] ELSE Terminal

\* MODE = sys.argv[3].lower(), or 'terminal' (lines 68-71)
ModeOf(args) == IF Len(args) > 3 THEN lower(args[4]) ELSE Terminal

\* if MODE != 'pipe' and MODE != 'terminal' (lines 68-80)
GuardMode ==
    /\ pc = "g_mode"
    /\ MODE' = ModeOf(argv)
    /\ IF MODE' # Pipe /\ MODE' # Terminal
       THEN Usage("Invalid piping method.")
       ELSE pc' = "g_parse" /\ UNCHANGED <<exc, err>>
    /\ UNCHANGED <<argv, SERIAL_NUMBER, SAMPLE_PERIOD, parseVars, sessionVars, connectLocals,
                   readLocals, mainVars, site, callVars, ops, result, link, closes>>

\* SERIAL_NUMBER = int(sys.argv[1]); SAMPLE_PERIOD = int(sys.argv[2]) (lines 82-83)
GuardParse ==
    /\ pc = "g_parse"
    /\ IF ~IntParses(argv[2])
       THEN Uncaught("ValueError") /\ UNCHANGED <<SERIAL_NUMBER, SAMPLE_PERIOD>>
       ELSE /\ SERIAL_NUMBER' = int(argv[2])
            /\ SAMPLE_PERIOD' = int(argv[3])
            /\ pc' = "m_init"
            /\ UNCHANGED <<exc, err>>
    /\ UNCHANGED <<argv, MODE, parseVars, sessionVars, connectLocals, readLocals, mainVars,
                   site, callVars, ops, result, link, closes>>

Guards == GuardArgc \/ GuardSerial \/ GuardPeriod \/ GuardMode \/ GuardParse

\* ------------------------------------------------------------------- main

\* waveplus = WavePlus(SERIAL_NUMBER); the banner and the serial number line
\* (lines 246-251, 111-116)
MainInit ==
    /\ pc = "m_init"
    /\ serial_number' = SERIAL_NUMBER
    /\ mac_address' = None
    /\ peripheral' = None
    /\ curr_val_char' = None
    /\ printed' = [printed EXCEPT !.serial = @ + 1]
    /\ argv' = <<>>
    /\ pc' = "m_header"
    /\ UNCHANGED <<SERIAL_NUMBER, SAMPLE_PERIOD, MODE, parseVars, connectLocals, readLocals,
                   data, iter, cleanupCalls, site, exc, err, callVars, ops, result, link,
                   closes>>

\* The header row, in either mode (lines 253-257)
MainHeader ==
    /\ pc = "m_header"
    /\ printed' = [printed EXCEPT !.header = @ + 1]
    /\ pc' = "m_connect"
    /\ UNCHANGED <<cfgVars, parseVars, sessionVars, connectLocals, readLocals, data, iter,
                   cleanupCalls, site, exc, err, callVars, ops, result, link, closes>>

\* waveplus.connect() (line 260)
MainConnect ==
    /\ pc = "m_connect"
    /\ iter < MaxIter
    /\ iter' = iter + 1
    /\ site' = "loop"
    /\ BeginCall("connect")
    /\ UNCHANGED <<cfgVars, parseVars, sessionVars, connectLocals, readLocals, data, printed,
                   cleanupCalls, exc, err, link, closes>>

\* sensors = waveplus.read() (line 263)
MainRead ==
    /\ pc = "m_read"
    /\ BeginCall("read")
    /\ UNCHANGED <<cfgVars, parseVars, sessionVars, connectLocals, readLocals, mainVars, site,
                   exc, err, link, closes>>

\* data = ['{} {}'.format(data, unit) for data, unit in sensors] (lines 266-269)
MainFormat ==
    /\ pc = "m_format"
    /\ data' = FormatRow(sensors)
    /\ pc' = "m_print"
    /\ UNCHANGED <<cfgVars, parseVars, sessionVars, connectLocals, readLocals, iter, printed,
                   cleanupCalls, site, exc, err, callVars, ops, result, link, closes>>

\* The data row, in either mode (lines 271-276)
MainPrint ==
    /\ pc = "m_print"
    /\ printed' = [printed EXCEPT !.rows = @ + 1]
    /\ pc' = "m_disconnect"
    /\ UNCHANGED <<cfgVars, parseVars, sessionVars, connectLocals, readLocals, data, iter,
                   cleanupCalls, site, exc, err, callVars, ops, result, link, closes>>

\* waveplus.disconnect() (line 278)
MainDisconnect ==
    /\ pc = "m_disconnect"
    /\ BeginCall("disconnect")
    /\ UNCHANGED <<cfgVars, parseVars, sessionVars, connectLocals, readLocals, mainVars, site,
                   exc, err, link, closes>>

\* A loop that begins above the header row: the header is printed again
MainSleepToHeader ==
    /\ pc = "m_sleep"
    /\ pc' = "m_header"
    /\ UNCHANGED <<cfgVars, parseVars, sessionVars, connectLocals, readLocals, mainVars, site,
                   exc, err, callVars, ops, result, link, closes>>

\* time.sleep(SAMPLE_PERIOD) (line 280), then the next iteration
MainSleep ==
    /\ pc = "m_sleep"
    /\ pc' = "m_connect"
    /\ UNCHANGED <<cfgVars, parseVars, sessionVars, connectLocals, readLocals, mainVars, site,
                   exc, err, callVars, ops, result, link, closes>>

\* finally: waveplus.disconnect() (lines 281-282)
MainFinally ==
    /\ pc = "m_finally"
    /\ cleanupCalls' = cleanupCalls + 1
    /\ site' = "finally"
    /\ BeginCall("disconnect")
    /\ UNCHANGED <<cfgVars, parseVars, sessionVars, connectLocals, readLocals, data, iter,
                   printed, exc, err, link, closes>>

\* Whether control is inside the try block of main() (lines 253-280)
InTry == pc \in LoopPcs \/ (pc \in MethodPcs /\ site = "loop")

\* Whether control is inside the finally clause (lines 281-282)
InFinally == pc = "m_finally" \/ (pc \in MethodPcs /\ site = "finally")

\* Ctrl+C before a statement of the try block: KeyboardInterrupt
Interrupt ==
    /\ InTry
    /\ exc' = "KeyboardInterrupt"
    /\ pc' = TryFinally("KeyboardInterrupt")
    /\ result' = IF pc \in MethodPcs THEN "KeyboardInterrupt" ELSE result
    /\ searchCount' = 0
    /\ devices' = <<>>
    /\ rawdata' = <<>>
    /\ UNCHANGED <<cfgVars, parseVars, sessionVars, sensors, record, mainVars, site, err,
                   callVars, ops, link, closes>>

\* Ctrl+C before the try block is entered (lines 41-251): no handler runs.
\* A further Ctrl+C once the finally clause has begun is not modelled.
InterruptOutsideTry ==
    /\ pc \in GuardPcs \cup {"m_init"}
    /\ exc' = "KeyboardInterrupt"
    /\ pc' = "done"
    /\ UNCHANGED <<cfgVars, parseVars, sessionVars, connectLocals, readLocals, mainVars, site,
                   err, callVars, ops, result, link, closes>>

Main ==
    \/ MainInit \/ MainHeader \/ MainConnect \/ MainRead \/ MainFormat \/ MainPrint
    \/ MainDisconnect \/ MainSleep \/ MainFinally \/ Interrupt \/ InterruptOutsideTry

\* ------------------------------------------------- a caller of the session

\* A caller other than main() calls a method of the session once the last
\* call has ended, however it ended.
CallMethod ==
    /\ pc = "idle"
    /\ \E m \in {"connect", "read", "disconnect"} : BeginCall(m)
    /\ UNCHANGED <<cfgVars, parseVars, sessionVars, connectLocals, readLocals, mainVars, site,
                   exc, err, link, closes>>

\* -------------------------------------------------------- specifications

Unbound ==
    /\ SERIAL_NUMBER = -1
    /\ SAMPLE_PERIOD = -1
    /\ MODE = <<>>

NoSession ==
    /\ mac_address = None
    /\ peripheral = None
    /\ curr_val_char = None
    /\ searchCount = 0
    /\ devices = <<>>
    /\ rawdata = <<>>
    /\ sensors = <<>>
    /\ record = <<>>
    /\ data = <<>>
    /\ iter = 0
    /\ exc = "none"
    /\ err = ""
    /\ call = "none"
    /\ entry = Handles
    /\ ops = ZeroOps
    /\ result = "none"
    /\ prev = [call |-> "none", result |-> "none"]
    /\ link = 0
    /\ closes = -1
    /\ printed = [serial |-> 0, header |-> 0, rows |-> 0]
    /\ cleanupCalls = 0

\* No payload has been handed to the parser
NoPayload == manu_data = PyNone /\ parsed = Pending

\* The process starts: python read_waveplus.py ...
Init ==
    /\ argv \in ArgvSet
    /\ Unbound
    /\ serial_number = -1
    /\ NoSession
    /\ NoPayload
    /\ pc = "g_argc"
    /\ site = "main"

Next == Guards \/ Main \/ Session

Spec == Init /\ [][Next]_vars

\* A session WavePlus(513) in the hands of a caller that calls connect, read
\* and disconnect in any order and goes on after any exception
InitSession ==
    /\ argv = <<>>
    /\ Unbound
    /\ serial_number = int(SN_Target)
    /\ NoSession
    /\ NoPayload
    /\ pc = "idle"
    /\ site = "session"

NextSession == CallMethod \/ Session

SpecSession == InitSession /\ [][NextSession]_vars

\* The decoder on its own: the first iteration of the loop of main() at the
\* point where the transport read of line 156 has returned a record, followed
\* to the end of the iteration or of the process.
InitDecode ==
    /\ argv = <<>>
    /\ SERIAL_NUMBER = int(SN_Target)
    /\ SAMPLE_PERIOD = 0
    /\ MODE \in {Pipe, Terminal}
    /\ serial_number = SERIAL_NUMBER
    /\ mac_address = "aa:01"
    /\ peripheral = mac_address
    /\ curr_val_char = CurrValChar
    /\ searchCount = 0
    /\ devices = <<>>
    /\ record \in DecodeRecords \cup RawRecords
    /\ rawdata = record
    /\ sensors = <<>>
    /\ data = <<>>
    /\ iter = 1
    /\ exc = "none"
    /\ err = ""
    /\ call = "read"
    /\ entry = Handles
    /\ ops = [ZeroOps EXCEPT !.read = 1]
    /\ result = "running"
    /\ prev = [call |-> "connect", result |-> "returned"]
    /\ link = 1
    /\ closes = 0
    /\ manu_data = PyNone
    /\ parsed = Pending
    /\ printed = [serial |-> 1, header |-> 1, rows |-> 0]
    /\ cleanupCalls = 0
    /\ pc = "r_unpack"
    /\ site = "loop"

NextDecode ==
    \/ ReadUnpack \/ ReadSet \/ MainFormat \/ MainPrint \/ MainFinally
    \/ DisconnectCheck \/ DisconnectTransport \/ DisconnectTransportFails
    \/ DisconnectClearPeripheral \/ DisconnectClearChar

SpecDecode == InitDecode /\ [][NextDecode]_vars

\* The parser on its own: connect() at line 130, about to hand the payload of
\* one advertisement to parse_serial_number.
ParseSerialNumber ==
    /\ pc = "p_call"
    /\ parsed' = parse_serial_number(manu_data)
    /\ pc' = "p_done"
    /\ UNCHANGED <<cfgVars, manu_data, sessionVars, connectLocals, readLocals, mainVars, site,
                   exc, err, callVars, ops, result, link, closes>>

InitParse ==
    /\ argv = <<>>
    /\ Unbound
    /\ serial_number = int(SN_Target)
    /\ NoSession
    /\ manu_data \in Payloads
    /\ parsed = Pending
    /\ pc = "p_call"
    /\ site = "session"

NextParse == ParseSerialNumber

SpecParse == InitParse /\ [][NextParse]_vars

\* ----------------------------------------------------------------- claims

\* Whether the try block of main() has been entered
TryEntered == printed.serial > 0

\* C1: however the polling loop is left (Ctrl+C before any statement of the try
\* block, sys.exit in connect, read or the decoder, an error of the transport),
\* the disconnect() of the finally clause is called exactly once, after the
\* loop has been left and before the process ends; it is never called while
\* the loop runs, and no statement of the loop runs once an exception is
\* propagating.
C1_CleanupExactlyOnce ==
    /\ cleanupCalls \in {0, 1}
    /\ InTry => cleanupCalls = 0 /\ exc = "none"
    /\ (pc \in MethodPcs /\ site = "finally") => cleanupCalls = 1 /\ exc # "none"
    /\ pc = "m_finally" => cleanupCalls = 0 /\ exc # "none"
    /\ pc = "done" => cleanupCalls = (IF TryEntered THEN 1 ELSE 0)

\* The loop was left in its second iteration by sys.exit on a record of an
\* unknown version and the process has ended after the cleanup.
C1_Witness ==
    /\ pc = "done"
    /\ cleanupCalls = 1
    /\ iter = 2
    /\ exc = "SystemExit"
    /\ err = "Unknown sensor version."

EntryUnresolved == entry.mac = None /\ entry.per = None /\ entry.char = None
EntryResolved == entry.mac # None /\ entry.per = None /\ entry.char = None
EntryConnected == entry.mac # None /\ entry.per # None /\ entry.char # None

Ended == result \notin {"none", "running"}

\* C2: the transport read is only issued while the session holds a connection
\* and a characteristic; read() called in UNRESOLVED or RESOLVED issues no
\* transport read and ends with the "not connected" error, and read() called
\* in CONNECTED issues exactly one transport read.
C2_ReadOnlyWhenConnected ==
    /\ pc = "r_read" => peripheral # None /\ curr_val_char # None
    /\ ops.read > 0 => call = "read" /\ EntryConnected /\ ops.read = 1
    /\ (call = "read" /\ Ended /\ (EntryUnresolved \/ EntryResolved)) =>
          /\ ops.read = 0
          /\ result = "SystemExit"
          /\ err = "Devices are not connected."
    /\ (call = "read" /\ Ended /\ EntryConnected) => ops.read = 1

\* read() was called in RESOLVED, after a disconnect, and has ended.
C2_Witness ==
    /\ call = "read"
    /\ Ended
    /\ EntryResolved
    /\ prev.call = "disconnect"
    /\ ops.read = 0

\* C3: once mac_address is set no step changes or clears it and no step
\* scans, whatever connect(), read() and disconnect() calls follow.
C3_AddressResolvedOnce ==
    [][mac_address # None => mac_address' = mac_address /\ ops'.scan <= ops.scan]_vars

\* A connect() after a disconnect() has returned without a scan.
C3_Witness ==
    /\ call = "connect"
    /\ result = "returned"
    /\ prev = [call |-> "disconnect", result |-> "returned"]
    /\ EntryResolved
    /\ ops.scan = 0
    /\ mac_address = entry.mac

\* The session is where connect() is when the while loop has made all its
\* scans and none gave the address.
ScansExhausted == pc = "c_while" /\ searchCount = MaxSearchCount /\ mac_address = None

\* C4: when 50 scans have returned and none held the target serial number,
\* connect() scans no more and ends with the device-not-found exit; a connect()
\* that ends so has made exactly 50 scans and no transport connect or
\* characteristic lookup, and leaves the address and both handles None; no
\* connection is attempted while the address is None.
C4_NotFoundAfterFiftyScans ==
    /\ [](/\ (call = "connect" /\ result = "SystemExit") =>
                /\ err = "Could not find device."
                /\ ops = [ZeroOps EXCEPT !.scan = 50]
                /\ UNRESOLVED
                /\ link = 0
          /\ (call = "connect" /\ mac_address = None) =>
                /\ pc \notin {"c_open", "c_char"}
                /\ ops.conn = 0
                /\ ops.look = 0)
    /\ [][ScansExhausted =>
             /\ call' = "connect"
             /\ result' = "SystemExit"
             /\ ops' = ops
             /\ ops.scan = 50]_vars

\* connect() has ended with the device-not-found exit.
C4_Witness ==
    /\ call = "connect"
    /\ result = "SystemExit"
    /\ ops.scan = 50
    /\ UNRESOLVED

\* Whether device d advertises the serial number the session looks for
Matches(d) == parse_serial_number(d.manu) = Returned(serial_number)

\* C5: one connect() makes at most 50 scans and none once a scan has given the
\* address; the address set is that of the first device, in the order of the
\* scan's result, whose serial number is the target.
C5_FirstMatchStopsScanning ==
    /\ [](/\ ops.scan <= 50
          /\ searchCount <= 50
          /\ (pc = "c_while" /\ mac_address # None) =>
                \E i \in 1..Len(devices) :
                   /\ devices[i].addr = mac_address
                   /\ Matches(devices[i])
                   /\ \A j \in 1..(i - 1) : ~Matches(devices[j]))
    /\ [][(pc = "c_while" /\ mac_address # None) =>
             ops' = ops /\ searchCount' = 0 /\ pc' = "c_open"]_vars

\* A scan returned two devices with the target serial number and the address
\* is the first one's.
C5_Witness ==
    /\ pc = "c_while"
    /\ Len(devices) = 2
    /\ Matches(devices[1])
    /\ Matches(devices[2])
    /\ mac_address = devices[1].addr
    /\ searchCount > 1

\* C6: when disconnect() has been called twice in a row on a session whose
\* address is resolved, neither call raised, the second issued no transport
\* disconnect and changed nothing, and the session is RESOLVED.
C6_DisconnectTwice ==
    (/\ pc = "idle"
     /\ call = "disconnect"
     /\ prev.call = "disconnect"
     /\ mac_address # None) =>
        /\ prev.result = "returned"
        /\ result = "returned"
        /\ ops.disc = 0
        /\ Handles = entry
        /\ RESOLVED

\* C7: connect() called in CONNECTED issues no scan, no transport connect and
\* no characteristic lookup and leaves the address and both handles as they
\* were; called in RESOLVED it issues no scan, keeps the address, opens the
\* connection and, when that succeeds, resolves the characteristic, one call of
\* each, and returns in CONNECTED.
C7_ConnectIdempotent ==
    /\ (call = "connect" /\ EntryConnected) =>
          /\ ops = ZeroOps
          /\ Handles = entry
          /\ result \in {"running", "returned"}
    /\ (call = "connect" /\ EntryResolved) =>
          /\ ops.scan = 0
          /\ mac_address = entry.mac
          /\ ops.conn <= 1
          /\ ops.look <= 1
          /\ ops.look = 1 => ops.conn = 1
          /\ Ended => ops.conn = 1
          /\ result = "returned" => ops.look = 1 /\ CONNECTED

\* connect() was called in CONNECTED, right after a connect() that returned,
\* and has returned.
C7_Witness ==
    /\ call = "connect"
    /\ result = "returned"
    /\ EntryConnected
    /\ prev = [call |-> "connect", result |-> "returned"]

\* C8: at most one transport connection is open, the session holds its handle
\* while it is, and a transport connect is only issued while the session holds
\* no connection handle.
C8_OneConnection ==
    /\ [](link <= 1 /\ (link = 1 => peripheral # None))
    /\ [][ops'.conn > ops.conn => peripheral = None]_vars

\* connect() was called while the session held a connection whose
\* characteristic lookup had failed, and returned with that one connection.
C8_Witness ==
    /\ call = "connect"
    /\ result = "returned"
    /\ entry.per # None
    /\ entry.char = None
    /\ ops.conn = 0
    /\ link = 1

\* C9: the disconnect() of the finally clause never raises: when the process
\* has ended after the cleanup, the cleanup call returned.
C9_CleanupNeverRaises ==
    (pc = "done" /\ site = "finally") => result = "returned"

\* The process ended without entering main(): sys.exit(1) of a script guard, or
\* an exception of one
Rejected == pc = "done" /\ argv # <<>> /\ exc # "KeyboardInterrupt"

\* The command line reached main().
Accepted == pc = "m_init"

\* A string of decimal digits
Decimal(str) == Len(str) > 0 /\ \A i \in 1..Len(str) : str[i] \in DecimalChars

\* The command lines C10 says are accepted: SN of exactly 10 digits, a period
\* written in digits, and no MODE or one that is terminal or pipe
ValidAsClaimed(args) ==
    /\ Len(args) >= 3
    /\ Len(args[2]) = 10 /\ Decimal(args[2])
    /\ Decimal(args[3]) /\ int(args[3]) >= 0
    /\ Len(args) > 3 => args[4] \in {Terminal, Pipe}

\* The same, with MODE compared without regard to case
ValidIgnoringCase(args) ==
    /\ Len(args) >= 3
    /\ Len(args[2]) = 10 /\ Decimal(args[2])
    /\ Decimal(args[3]) /\ int(args[3]) >= 0
    /\ Len(args) > 3 => lower(args[4]) \in {Terminal, Pipe}

\* An exit with code 1 (sys.exit(1) or an uncaught exception) before the
\* session exists or any transport operation is issued
ExitOneBeforeAnyTransport ==
    /\ exc \in {"SystemExit", "ValueError"}
    /\ call = "none"
    /\ ops = ZeroOps
    /\ link = 0
    /\ printed.serial = 0

Word(rec, i) == rec[5 + 2 * i] + 256 * rec[6 + 2 * i]

\* The value v is the float num/den
IsFloat(v, num, den) == v.t = "float" /\ v.n * den = num * v.d

\* read() has returned the readings of the record the transport gave it
ReadReturned == call = "read" /\ result = "returned"

Scenario1Record == Record(1, 0, 0, 0, <<80, 0, 0, 10, 20, 1000, 40, 500>>)

AfterReadPcs == {"m_format", "m_print", "m_disconnect"}

\* C12: each of the two radon words v of a version-1 record decodes to v when
\* 0 <= v <= 16383 and to the string N/A otherwise, which is no number; the
\* value reaches the data row as it is, followed by its unit, and neither the
\* formatting nor the printing of the row raises.
C12_RadonOrNotAvailable ==
    (ReadReturned /\ Len(record) = RecordSize /\ record[1] = 1) =>
        /\ pc \in AfterReadPcs /\ exc = "none"
        /\ pc = "m_disconnect" => printed.rows = 1
        /\ \A k \in {0, 1} :
              LET v == Word(record, k)
                  radon == sensors[2 + k]
              IN  /\ v <= 16383 => radon = PyInt(v)
                  /\ v > 16383 => radon = PyText("N/A") /\ radon.t \notin {"int", "float"}
                  /\ pc \in {"m_print", "m_disconnect"} =>
                        data[2 + k] = (IF v <= 16383 THEN DigitsOf(v) ELSE <<"N/A">>)
                                      \o <<" ", "Bq/m3">>

\* A row with N/A for the short-term radon and 16383 for the long-term one has
\* been printed
C12_Witness ==
    /\ ReadReturned /\ pc = "m_disconnect" /\ printed.rows = 1
    /\ record[1] = 1 /\ Word(record, 0) = 16384 /\ Word(record, 1) = 16383
    /\ data[2] = <<"N/A", " ", "Bq/m3">>
    /\ data[3] = <<"1", "6", "3", "8", "3", " ", "Bq/m3">>

\* ---- C13

\* Byte k (from 0) of a payload given as hex text
ByteAt(payload, k) == 16 * HexValue(payload.str[2 * k + 1]) + HexValue(payload.str[2 * k + 2])

NoneText == PyStr(<<"N", "o", "n", "e">>)

\* The payload is hex text of at least n bytes
HexOfAtLeast(payload, n) ==
    payload # PyNone /\ payload # NoneText /\ Len(payload.str) >= 2 * n

\* C13: a payload of at least 6 bytes parses to byte 2 + 256 * byte 3 + 65536 *
\* byte 4 + 16777216 * byte 5 when its first two bytes, little-endian, are
\* 0x0334, and to Unknown when they are not; an absent payload and the text
\* None parse to Unknown.
C13_SerialFromSixBytes ==
    pc = "p_done" =>
        /\ manu_data \in {PyNone, NoneText} => parsed = Unknown
        /\ HexOfAtLeast(manu_data, 6) =>
              parsed = IF ByteAt(manu_data, 0) + 256 * ByteAt(manu_data, 1) = 820
                       THEN Returned(ByteAt(manu_data, 2) + 256 * ByteAt(manu_data, 3)
                                     + 65536 * ByteAt(manu_data, 4)
                                     + 16777216 * ByteAt(manu_data, 5))
                       ELSE Unknown

\* The payload 34 03 01 02 00 00 09 00 has been parsed to 513
C13_Witness == pc = "p_done" /\ manu_data = ManuTarget /\ parsed = Returned(513)

\* ---- C14

\* C14: whatever its length, a hex payload parses to a serial number or to
\* Unknown; parse_serial_number never raises.
C14_ParserNeverRaises ==
    (pc = "p_done" /\ HexOfAtLeast(manu_data, 0)) => parsed.tag \in {"value", "Unknown"}

\* ---- C15

\* The record read has a version byte other than 1
OtherVersion == Len(record) = RecordSize /\ record[1] # 1

\* C15: a record whose version byte is not 1 makes read() end with SystemExit
\* after the line "Unknown sensor version."; no reading is stored, no row is
\* formatted or printed, and the process ends with an exception (exit code 1).
C15_OtherVersionIsFatal ==
    OtherVersion =>
        /\ sensors = <<>> /\ data = <<>> /\ printed.rows = 0
        /\ pc \notin AfterReadPcs
        /\ pc \notin {"r_unpack", "r_set"} =>
              /\ err = "Unknown sensor version."
              /\ IF call = "read" THEN result = "SystemExit"
                 ELSE prev = [call |-> "read", result |-> "SystemExit"]
              /\ exc \in {"SystemExit", "BTLEException"}
              /\ exc = "BTLEException" => call = "disconnect" /\ result = "BTLEException"

\* The process has ended on a record of version 2
C15_Witness ==
    OtherVersion /\ record[1] = 2 /\ pc = "done" /\ exc = "SystemExit" /\ printed.rows = 0

\* ---- C16

\* The call that ended last, how it ended, and the call before it
LastCalls(m, before) ==
    call = m /\ result = "returned" /\ prev = [call |-> before, result |-> "returned"]

\* C16: the serial number line and the header row are printed once each, both
\* before the first connect; in iteration n of the loop connect() returns
\* before read() is called, read() issues one transport read and its decoded
\* values are formatted into the one row printed in that iteration, the row is
\* printed before disconnect() is called, and the sleep begins after
\* disconnect() has returned, with no connection open and both handles cleared.
C16_HeaderOnceThenOrderedIterations ==
    /\ printed.serial <= 1 /\ printed.header <= 1
    /\ pc = "m_header" => printed.serial = 1 /\ printed.header = 0 /\ iter = 0
    /\ (pc \in LoopPcs \ {"m_header"} \/ iter >= 1) =>
          printed.serial = 1 /\ printed.header = 1
    /\ pc = "m_connect" =>
          /\ printed.rows = iter /\ link = 0
          /\ IF iter = 0 THEN call = "none" ELSE LastCalls("disconnect", "read")
    /\ pc = "m_read" =>
          /\ call = "connect" /\ result = "returned" /\ ops.read = 0
          /\ printed.rows = iter - 1 /\ link = 1
    /\ pc \in AfterReadPcs =>
          /\ LastCalls("read", "connect") /\ ops.read = 1 /\ link = 1
          /\ sensors = SensorsSet(unpack(record).val).val
          /\ pc # "m_format" => data = FormatRow(sensors)
          /\ printed.rows = IF pc = "m_disconnect" THEN iter ELSE iter - 1
    /\ pc = "m_sleep" =>
          /\ LastCalls("disconnect", "read") /\ ops.disc = 1
          /\ printed.rows = iter /\ link = 0
          /\ peripheral = None /\ curr_val_char = None

\* The second iteration has reached its sleep
C16_Witness ==
    pc = "m_sleep" /\ iter = 2 /\ printed = [serial |-> 1, header |-> 1, rows |-> 2]

\* ---- C17

\* A transport disconnect has raised: in the loop, or in the cleanup
DisconnectFailed ==
    \/ call = "disconnect" /\ result = "BTLEException"
    \/ prev = [call |-> "disconnect", result |-> "BTLEException"]

CharImpliesPeripheral == curr_val_char # None => peripheral # None

\* A connection handle implies an address
PeripheralImpliesAddress == peripheral # None => mac_address # None

\* connect() has returned
ConnectReturned == call = "connect" /\ result = "returned"

\* C18 as the claim states it: in every state of a session the characteristic
\* handle implies the connection handle and the connection handle implies the
\* address, and all three are set when connect() has returned.
C18_HandlesNestedEverywhere ==
    /\ CharImpliesPeripheral
    /\ PeripheralImpliesAddress
    /\ ConnectReturned => CONNECTED

\* An interrupt has ended a disconnect() of the loop of main()
DisconnectInterrupted ==
    \/ call = "disconnect" /\ result = "KeyboardInterrupt"
    \/ prev = [call |-> "disconnect", result |-> "KeyboardInterrupt"]

\* C18, amended: the same in every state of a session except while
\* disconnect() is between the clearing of the connection handle (line 169)
\* and the clearing of the characteristic handle (line 170), and after an
\* interrupt has ended disconnect(); there the connection handle still
\* implies the address.
C18_HandlesNestedOutsideClearing ==
    /\ (pc # "d_clear_c" /\ ~DisconnectInterrupted) => CharImpliesPeripheral
    /\ PeripheralImpliesAddress
    /\ ConnectReturned => CONNECTED

\* connect() has ended on a failed characteristic lookup: the connection is
\* held, the characteristic is not
C18_Witness ==
    /\ pc = "idle" /\ call = "connect" /\ result \in {"BTLEException", "IndexError"}
    /\ ops.look = 1 /\ mac_address # None /\ peripheral # None /\ curr_val_char = None

\* ---- C19

\* C19: the address of the session is that of a device whose payload parses
\* to the serial number looked for, the connection is opened to that address
\* and to no other, and no device whose payload parses to Unknown (no
\* manufacturer data, or another company identifier) is ever the address or
\* the peer of the connection, whichever 10-digit number is looked for.
C19_OnlyTheTargetDevice ==
    /\ mac_address # None => \E d \in Devices : d.addr = mac_address /\ Matches(d)
    /\ peripheral # None => peripheral = mac_address
    /\ \A d \in Devices :
          parse_serial_number(d.manu) = Unknown => d.addr \notin {mac_address, peripheral}

\* A scan has listed a device without manufacturer data before the device
\* that advertises the serial number, and the address is the latter's
C19_Witness ==
    /\ pc = "c_while" /\ Len(devices) = 2
    /\ devices[1].manu = PyNone /\ Matches(devices[2])
    /\ mac_address = devices[2].addr

====
